---- MODULE Spec2Model ----
(***************************************************************************)
(* Model of the remote metrics dashboard of src/src/main.rs: the snapshot  *)
(* parser (parse_system_stats), the CPU history buffer                     *)
(* (SystemStats::update_cpu_history) and the dashboard loop                *)
(* (monitor_system).                                                       *)
(*                                                                         *)
(* Text is modelled after split_whitespace: a text is a sequence of lines, *)
(* a line is a sequence of tokens, tokens are separated by single blanks   *)
(* and a line has no leading blank.  f64 values are exact decimals counted *)
(* in hundredths (3.2 is 320); u64 values are plain naturals.              *)
(***************************************************************************)
EXTENDS Integers, Sequences, FiniteSets, TLC

VARIABLES
    pc,           \* position of the control flow inside monitor_system
    interval,     \* monitor_system's argument `interval` (seconds)
    now,          \* the monotonic clock read by Instant::now() (seconds)
    last_update,  \* local `last_update`
    stats,        \* local `stats` (SystemStats, cpu_history included)
    output,       \* local `output` of the running command batch
    cmd,          \* index into `commands` of the command being executed
    raw,          \* terminal is in raw mode
    alt,          \* terminal shows the alternate screen
    entered,      \* raw mode and the alternate screen were switched on (lines 208-209)
    result,       \* how monitor_system ended
    cause,        \* the call that ended monitor_system
    frame,        \* what the last terminal.draw of the dashboard put on screen
    draws,        \* frames drawn in the current loop iteration
    status,       \* local `status` of the screenshot command
    tick_start,   \* stats and last_update at the top of the current iteration
    k,            \* number of successful refreshes so far
    accepted,     \* cpu_usage of the successfully parsed snapshots, in order
    sched,        \* the remote host's behaviour over the batches
    text,         \* input text of parse_system_stats run on its own (SpecParse)
    parsed,       \* outcome of parse_system_stats(text) (SpecParse)
    pushed        \* samples pushed by update_cpu_history run on its own (SpecPush)

vars == <<pc, interval, now, last_update, stats, output, cmd, raw, alt, entered,
          result, cause, frame, draws, status, tick_start, k, accepted, sched, text,
          parsed, pushed>>

----------------------------------------------------------------------------
(* Bounds of the model *)

MaxInterval == 2
MaxTime == 3
MaxRefreshes == 102
MaxPush == 103
MaxCpuTokens == 4
MaxMemTokens == 3
MaxDiskTokens == 6

(* Program constants *)

MAX_HISTORY == 100
NumCommands == 4

----------------------------------------------------------------------------
(* Helpers *)

NoVal == -1

Min(a, b) == IF a <= b THEN a ELSE b

MinOf(S) == CHOOSE x \in S : \A y \in S : x <= y

LastN(s, n) == SubSeq(s, Len(s) - n + 1, Len(s))

SeqsUpTo(A, n) == UNION {[1..m -> A] : m \in 0..n}

----------------------------------------------------------------------------
(* Tokens: what str::parse::<f64>, str::parse::<u64>, str::contains and    *)
(* str::starts_with answer for each token of the alphabet.                 *)

\* parts[i].parse::<f64>() in hundredths, NoVal for Err
ParseF64(tok) ==
    CASE tok = "3.2"  -> 320
      [] tok = "1.1"  -> 110
      [] tok = "95.7" -> 9570
      [] tok = "0.10" -> 10
      [] tok = "0.20" -> 20
      [] tok = "0.30" -> 30
      [] tok = "0"    -> 0
      [] tok = "50"   -> 5000
      [] tok = "200"  -> 20000
      [] tok = "400"  -> 40000
      [] tok = "600"  -> 60000
      [] tok = "1000" -> 100000
      [] OTHER        -> NoVal

\* parts[i].parse::<u64>(), NoVal for Err
ParseU64(tok) ==
    CASE tok = "0"    -> 0
      [] tok = "50"   -> 50
      [] tok = "200"  -> 200
      [] tok = "400"  -> 400
      [] tok = "600"  -> 600
      [] tok = "1000" -> 1000
      [] OTHER        -> NoVal

\* parts[i].parse().unwrap_or(0)
ParseU64OrZero(tok) == IF ParseU64(tok) = NoVal THEN 0 ELSE ParseU64(tok)

\* the token without its trailing comma; the token itself when it has none
CommaStem(tok) ==
    CASE tok = "0.10," -> "0.10"
      [] tok = "0.20," -> "0.20"
      [] tok = "0.30," -> "0.30"
      [] tok = "abc,"  -> "abc"
      [] tok = "us,"   -> "us"
      [] tok = "sy,"   -> "sy"
      [] tok = "id,"   -> "id"
      [] OTHER         -> tok

HasComma(tok) == CommaStem(tok) # tok

\* l.contains("%Cpu(s)")
ContainsCpuMarker(line) == \E i \in 1..Len(line) : line[i] \in {"%Cpu(s):", "%Cpu(s)"}

\* line.starts_with("Mem:"), line.starts_with("Swap:"), line.starts_with('/')
StartsWithMem(line) == Len(line) > 0 /\ line[1] = "Mem:"

StartsWithSwap(line) == Len(line) > 0 /\ line[1] = "Swap:"

StartsWithSlash(line) == Len(line) > 0 /\ line[1] \in {"/", "/dev/sda1", "/dev/sdb1", "/home"}

\* positions p such that "load average:" starts at token p of the line
LoadMarkerAt(line) == {p \in 1..Len(line) - 1 : line[p] = "load" /\ line[p + 1] = "average:"}

ContainsLoadMarker(line) == LoadMarkerAt(line) # {}

----------------------------------------------------------------------------
(* SystemStats and its history push *)

SystemStats_default ==
    [cpu_usage |-> 0, cpu_history |-> <<>>,
     memory_total |-> 0, memory_used |-> 0,
     swap_total |-> 0, swap_used |-> 0,
     disk_usage |-> <<>>, load_average |-> <<0, 0, 0>>, uptime |-> <<>>]

\* update_cpu_history with `>` for `>=`: the eviction starts one push late
update_cpu_history_late(s) ==
    LET h == IF Len(s.cpu_history) > MAX_HISTORY THEN Tail(s.cpu_history)
             ELSE s.cpu_history
    IN  [s EXCEPT !.cpu_history = Append(h, s.cpu_usage)]

\* update_cpu_history with pop() for remove(0): the newest sample is evicted
update_cpu_history_pop(s) ==
    LET h == IF Len(s.cpu_history) >= MAX_HISTORY
             THEN SubSeq(s.cpu_history, 1, Len(s.cpu_history) - 1)
             ELSE s.cpu_history
    IN  [s EXCEPT !.cpu_history = Append(h, s.cpu_usage)]

update_cpu_history(s) ==
    LET h == IF Len(s.cpu_history) >= MAX_HISTORY THEN Tail(s.cpu_history)
             ELSE s.cpu_history
    IN  [s EXCEPT !.cpu_history = Append(h, s.cpu_usage)]

----------------------------------------------------------------------------
(* parse_system_stats *)

\* the for loop over parts of the first %Cpu(s) line: the value of
\* stats.cpu_usage, or a panic of parts[sys_idx - 1] when sys_idx is 0
parse_cpu_parts(parts) ==
    LET us_hits == {i \in 2..Len(parts) :
                        parts[i] = "us," /\ ParseF64(parts[i - 1]) # NoVal}
        sy_hits == {j \in 1..Len(parts) : parts[j] = "sy,"}
    IN  IF us_hits = {} THEN [panic |-> FALSE, value |-> 0]
        ELSE LET user_cpu == ParseF64(parts[MinOf(us_hits) - 1])
             IN  IF sy_hits = {} THEN [panic |-> FALSE, value |-> user_cpu]
                 ELSE LET sys_idx == MinOf(sy_hits)
                      IN  IF sys_idx = 1 THEN [panic |-> TRUE, value |-> user_cpu]
                          ELSE IF ParseF64(parts[sys_idx - 1]) # NoVal
                               THEN [panic |-> FALSE,
                                     value |-> user_cpu + ParseF64(parts[sys_idx - 1])]
                               ELSE [panic |-> FALSE, value |-> user_cpu]

\* output.lines().find(|l| l.contains("%Cpu(s)")) and the loop on it
parse_cpu(lines) ==
    LET hits == {i \in 1..Len(lines) : ContainsCpuMarker(lines[i])}
    IN  IF hits = {} THEN [panic |-> FALSE, value |-> 0]
        ELSE parse_cpu_parts(lines[MinOf(hits)])

\* the loop over the Mem: and Swap: lines, from line i on
RECURSIVE parse_memory(_, _, _)
parse_memory(lines, i, s) ==
    IF i > Len(lines) THEN s
    ELSE LET parts == lines[i]
             s2 == IF StartsWithMem(parts)
                   THEN IF Len(parts) >= 3
                        THEN [s EXCEPT !.memory_total = ParseU64OrZero(parts[2]),
                                       !.memory_used = ParseU64OrZero(parts[3])]
                        ELSE s
                   ELSE IF StartsWithSwap(parts)
                        THEN IF Len(parts) >= 3
                             THEN [s EXCEPT !.swap_total = ParseU64OrZero(parts[2]),
                                            !.swap_used = ParseU64OrZero(parts[3])]
                             ELSE s
                        ELSE s
         IN  parse_memory(lines, i + 1, s2)

\* uptime_line.split("load average:").nth(1): the tokens between the first
\* marker and the next one (or the end of the line)
load_str(line) ==
    LET rest == SubSeq(line, MinOf(LoadMarkerAt(line)) + 2, Len(line))
    IN  IF LoadMarkerAt(rest) = {} THEN rest
        ELSE SubSeq(rest, 1, MinOf(LoadMarkerAt(rest)) - 1)

\* load_str.split(','): the pieces, each the tokens between two commas
RECURSIVE split_comma(_, _, _, _)
split_comma(toks, i, cur, acc) ==
    IF i > Len(toks) THEN Append(acc, cur)
    ELSE IF HasComma(toks[i])
         THEN split_comma(toks, i + 1, <<>>, Append(acc, Append(cur, CommaStem(toks[i]))))
         ELSE split_comma(toks, i + 1, Append(cur, toks[i]), acc)

\* s.trim().parse::<f64>() of one piece: only a single token can be a number
piece_f64(piece) == IF Len(piece) = 1 THEN ParseF64(piece[1]) ELSE NoVal

\* the filter_map(...).collect() of the pieces that parse
load_values(toks) ==
    LET pieces == split_comma(toks, 1, <<>>, <<>>)
        vals == [n \in 1..Len(pieces) |-> piece_f64(pieces[n])]
    IN  SelectSeq(vals, LAMBDA v : v # NoVal)

parse_load(lines, s) ==
    LET hits == {i \in 1..Len(lines) : ContainsLoadMarker(lines[i])}
    IN  IF hits = {} THEN s
        ELSE LET uptime_line == lines[MinOf(hits)]
                 loads == load_values(load_str(uptime_line))
             IN  [s EXCEPT !.uptime = uptime_line,
                           !.load_average = IF Len(loads) >= 3
                                            THEN <<loads[1], loads[2], loads[3]>>
                                            ELSE @]

\* parse_disks with insert(0, ..) for push: the entries come out in reverse
RECURSIVE parse_disks_reversed(_, _, _)
parse_disks_reversed(lines, i, acc) ==
    IF i > Len(lines) THEN acc
    ELSE LET parts == lines[i]
         IN  IF StartsWithSlash(parts) /\ Len(parts) >= 6
             THEN parse_disks_reversed(lines, i + 1,
                      << <<parts[6], ParseU64OrZero(parts[2]),
                           ParseU64OrZero(parts[3])>> >> \o acc)
             ELSE parse_disks_reversed(lines, i + 1, acc)

\* the loop over the lines starting with '/', from line i on
RECURSIVE parse_disks(_, _, _)
parse_disks(lines, i, acc) ==
    IF i > Len(lines) THEN acc
    ELSE LET parts == lines[i]
         IN  IF StartsWithSlash(parts) /\ Len(parts) >= 6
             THEN parse_disks(lines, i + 1,
                      Append(acc, <<parts[6], ParseU64OrZero(parts[2]),
                                    ParseU64OrZero(parts[3])>>))
             ELSE parse_disks(lines, i + 1, acc)

\* the returned SystemStats, or a panic inside the CPU loop
parse_system_stats(lines) ==
    LET cpu == parse_cpu(lines)
        s1 == [SystemStats_default EXCEPT !.cpu_usage = cpu.value]
        s2 == parse_memory(lines, 1, s1)
        s3 == parse_load(lines, s2)
        s4 == [s3 EXCEPT !.disk_usage = parse_disks(lines, 1, <<>>)]
    IN  IF cpu.panic THEN [panic |-> TRUE, stats |-> SystemStats_default]
        ELSE [panic |-> FALSE, stats |-> s4]

----------------------------------------------------------------------------
(* The remote host behind the Session: what each of the four commands of   *)
(* monitor_system prints in host condition c.  Outputs end with a newline. *)

Conditions == 0..2

TopOut(c) ==
    CASE c = 0 -> << <<"top", "-", "up">>,
                     <<"%Cpu(s):", "3.2", "us,", "1.1", "sy,", "95.7", "id,">> >>
      [] c = 1 -> << <<"top", "-", "up">>,
                     <<"%Cpu(s):", "95.7", "us,", "1.1", "sy,", "3.2", "id,">> >>
      [] c = 2 -> << <<"%Cpu(s):", "1.1", "us,">> >>

FreeOut(c) ==
    CASE c = 0 -> << <<"total", "used", "free">>,
                     <<"Mem:", "1000", "400", "600">>,
                     <<"Swap:", "200", "50", "0">> >>
      [] c = 1 -> << <<"total", "used", "free">>,
                     <<"Mem:", "1000", "600", "400">>,
                     <<"Swap:", "0", "0", "0">> >>
      [] c = 2 -> << <<"total", "used", "free">>,
                     <<"Mem:", "400", "200", "200">> >>

DfOut(c) ==
    CASE c = 0 -> << <<"Filesystem", "1B-blocks", "Used", "Available", "Use%", "Mounted", "on">>,
                     <<"/dev/sda1", "1000", "400", "600", "40%", "/">> >>
      [] c = 1 -> << <<"Filesystem", "1B-blocks", "Used", "Available", "Use%", "Mounted", "on">>,
                     <<"/dev/sda1", "1000", "600", "400", "60%", "/">>,
                     <<"tmpfs", "200", "0", "200", "0%", "/run">>,
                     <<"/dev/sdb1", "200", "50", "0", "25%", "/home">> >>
      [] c = 2 -> << <<"/dev/sdb1", "400", "200", "200", "50%", "/home">> >>

UptimeOut(c) ==
    CASE c = 0 -> << <<"up", "load", "average:", "0.10,", "0.20,", "0.30">> >>
      [] c = 1 -> << <<"up", "load", "average:", "0.30,", "0.20,", "0.10">> >>
      [] c = 2 -> << <<"up", "load", "average:", "0.20,", "abc,", "0.30">> >>

\* the output of commands[i] (0-based in the source, 1-based here)
CommandOut(i, c) ==
    CASE i = 1 -> TopOut(c)
      [] i = 2 -> FreeOut(c)
      [] i = 3 -> DfOut(c)
      [] i = 4 -> UptimeOut(c)

\* a top summary line that carries its fields in another order
ReorderedTop == << <<"sy,", "%Cpu(s):", "3.2", "us,">> >>

\* the host condition during the batch that follows n successful refreshes
CondAt(sc, n) == (sc.phase + sc.stride * n) % 3

Schedules == [phase : Conditions, stride : 0..1]

----------------------------------------------------------------------------
(* The closure given to terminal.draw in the loop *)

\* A u64 value of the gauge panel.  u64::MAX = 18446744073709551615 is beyond
\* the integers of the model checker and is carried by a flag of its own.
U64Value(n) == [u64_max |-> FALSE, value |-> n]

U64Max == [u64_max |-> TRUE, value |-> 0]

\* (used as f64 / total as f64 * 100.0) as u64: 0.0 / 0.0 is NaN and casts to 0,
\* x / 0.0 is infinite for x > 0 and the cast saturates to u64::MAX.  For the
\* byte counts of the alphabet the f64 product truncates to the integer quotient.
percent_u64(used, total) ==
    IF total = 0 THEN (IF used = 0 THEN U64Value(0) ELSE U64Max)
    ELSE U64Value((used * 100) \div total)

\* (*used as f64 / *total as f64 * 100.0) as u8
percent_u8(used, total) ==
    IF total = 0 THEN (IF used = 0 THEN 0 ELSE 255)
    ELSE Min((used * 100) \div total, 255)

\* cpu_points: x is the fraction of the chart width, <<numerator, denominator>>
cpu_points(h) ==
    [i \in 1..Len(h) |->
        [x |-> IF Len(h) > 1 THEN <<i - 1, Len(h) - 1>> ELSE <<0, 1>>,
         y |-> h[i]]]

\* stats.cpu_history after the "at least two points" block
ensure_two_points(s) ==
    IF s.cpu_history = <<>>
    THEN [s EXCEPT !.cpu_history = <<s.cpu_usage, s.cpu_usage>>]
    ELSE s

\* the widgets rendered from stats; seen_history is the history the closure found
draw_frame(s) ==
    [uptime |-> s.uptime,
     title_cpu |-> s.cpu_usage,
     seen_history |-> s.cpu_history,
     cpu_points |-> cpu_points(ensure_two_points(s).cpu_history),
     memory_total |-> s.memory_total,
     swap_total |-> s.swap_total,
     mem_percent |-> percent_u64(s.memory_used, s.memory_total),
     swap_percent |-> percent_u64(s.swap_used, s.swap_total),
     disk_items |-> [n \in 1..Len(s.disk_usage) |->
                       <<s.disk_usage[n][1], s.disk_usage[n][3], s.disk_usage[n][2],
                         percent_u8(s.disk_usage[n][3], s.disk_usage[n][2])>>]]

NoFrame == [uptime |-> <<"-">>]

----------------------------------------------------------------------------
(* monitor_system *)

Live == {"start", "enter_alt", "terminal_new", "loop", "exec", "parse", "draw",
         "poll", "shot_disable_raw", "shot_leave_alt", "shot_capture",
         "shot_enter_alt", "shot_enable_raw", "shot_notify",
         "restore_raw", "restore_alt"}

\* a `?` that propagates the error of call c out of monitor_system
Propagate(c) ==
    /\ pc' = "returned"
    /\ result' = "err"
    /\ cause' = c

Init ==
    /\ pc = "start"
    /\ interval \in 0..MaxInterval
    /\ sched \in Schedules
    /\ now = 0
    /\ last_update = 0
    /\ stats = SystemStats_default
    /\ output = <<>>
    /\ cmd = 0
    /\ raw = FALSE
    /\ alt = FALSE
    /\ entered = FALSE
    /\ result = "none"
    /\ cause = "none"
    /\ frame = NoFrame
    /\ draws = 0
    /\ status = "none"
    /\ tick_start = [stats |-> SystemStats_default, last_update |-> 0]
    /\ k = 0
    /\ accepted = <<>>
    /\ text = <<>>
    /\ parsed = [panic |-> FALSE, stats |-> SystemStats_default]
    /\ pushed = <<>>

\* time passes while monitor_system runs
Tick ==
    /\ pc \in Live
    /\ now < MaxTime
    /\ now' = now + 1
    /\ UNCHANGED <<pc, interval, last_update, stats, output, cmd, raw, alt, entered,
                   result, cause, frame, draws, status, tick_start, k, accepted,
                   sched, text, parsed, pushed>>

\* line 208
EnableRawMode ==
    /\ pc = "start"
    /\ \/ /\ raw' = TRUE
          /\ pc' = "enter_alt"
          /\ UNCHANGED <<result, cause>>
       \/ /\ Propagate("enable_raw_mode")
          /\ UNCHANGED raw
    /\ UNCHANGED <<interval, now, last_update, stats, output, cmd, alt, entered, frame, draws,
                   status, tick_start, k, accepted, sched, text, parsed, pushed>>

\* line 209
EnterAlternateScreen ==
    /\ pc = "enter_alt"
    /\ \/ /\ alt' = TRUE
          /\ entered' = TRUE
          /\ pc' = "terminal_new"
          /\ UNCHANGED <<result, cause>>
       \/ /\ Propagate("EnterAlternateScreen")
          /\ UNCHANGED <<alt, entered>>
    /\ UNCHANGED <<interval, now, last_update, stats, output, cmd, raw, frame,
                   draws, status, tick_start, k, accepted, sched, text, parsed, pushed>>

\* TerminalNew of a loop whose last_update starts at the clock's origin
\* instead of Instant::now()
TerminalNewFromOrigin ==
    /\ pc = "terminal_new"
    /\ \/ /\ last_update' = 0
          /\ stats' = SystemStats_default
          /\ pc' = "loop"
          /\ UNCHANGED <<result, cause>>
       \/ /\ Propagate("Terminal::new")
          /\ UNCHANGED <<last_update, stats>>
    /\ UNCHANGED <<interval, now, output, cmd, raw, alt, entered, frame, draws, status,
                   tick_start, k, accepted, sched, text, parsed, pushed>>

\* lines 210-218
TerminalNew ==
    /\ pc = "terminal_new"
    /\ \/ /\ last_update' = now
          /\ stats' = SystemStats_default
          /\ pc' = "loop"
          /\ UNCHANGED <<result, cause>>
       \/ /\ Propagate("Terminal::new")
          /\ UNCHANGED <<last_update, stats>>
    /\ UNCHANGED <<interval, now, output, cmd, raw, alt, entered, frame, draws, status,
                   tick_start, k, accepted, sched, text, parsed, pushed>>

\* is_due with `>` for `>=`
is_due_strict == now - last_update > interval

\* last_update.elapsed() >= Duration::from_secs(interval)
is_due == now - last_update >= interval

\* lines 220-229: the top of an iteration
DueCheck ==
    /\ pc = "loop"
    /\ tick_start' = [stats |-> stats, last_update |-> last_update]
    /\ draws' = 0
    /\ IF is_due
       THEN /\ k < MaxRefreshes
            /\ pc' = "exec"
            /\ cmd' = 1
            /\ output' = <<>>
       ELSE /\ pc' = "draw"
            /\ UNCHANGED <<cmd, output>>
    /\ UNCHANGED <<interval, now, last_update, stats, raw, alt, entered, result, cause,
                   frame, status, k, accepted, sched, text, parsed, pushed>>

\* lines 231-236 for commands[cmd], every call succeeding
ExecOk ==
    /\ pc = "exec"
    /\ \E out \in {CommandOut(cmd, CondAt(sched, k))}
                    \cup (IF cmd = 1 THEN {ReorderedTop} ELSE {}) :
           output' = output \o out
    /\ IF cmd < NumCommands
       THEN cmd' = cmd + 1 /\ pc' = pc
       ELSE cmd' = cmd /\ pc' = "parse"
    /\ UNCHANGED <<interval, now, last_update, stats, raw, alt, entered, result, cause,
                   frame, draws, status, tick_start, k, accepted, sched, text, parsed,
                   pushed>>

\* ExecFail of a loop that parses what the batch has read so far before it
\* gives up
ExecFailParsesPartial ==
    /\ pc = "exec"
    /\ \E call \in {"channel_session", "exec", "read_to_string", "wait_close"} :
           /\ Propagate(call)
           /\ output' = IF call = "wait_close"
                        THEN output \o CommandOut(cmd, CondAt(sched, k))
                        ELSE output
    /\ LET r == parse_system_stats(output)
       IN  stats' = IF r.panic THEN stats
                    ELSE update_cpu_history(
                             [r.stats EXCEPT !.cpu_history = stats.cpu_history])
    /\ UNCHANGED <<interval, now, last_update, cmd, raw, alt, entered, frame,
                   draws, status, tick_start, k, accepted, sched, text, parsed, pushed>>

\* lines 231-236 for commands[cmd], one of the four calls failing
ExecFail ==
    /\ pc = "exec"
    /\ \E call \in {"channel_session", "exec", "read_to_string", "wait_close"} :
           /\ Propagate(call)
           /\ output' = IF call = "wait_close"
                        THEN output \o CommandOut(cmd, CondAt(sched, k))
                        ELSE output
    /\ UNCHANGED <<interval, now, last_update, stats, cmd, raw, alt, entered, frame,
                   draws, status, tick_start, k, accepted, sched, text, parsed, pushed>>

\* Refresh without line 246: the history of the parsed stats is kept
RefreshDropsHistory ==
    /\ pc = "parse"
    /\ LET r == parse_system_stats(output)
       IN  IF r.panic
           THEN /\ pc' = "panicked"
                /\ UNCHANGED <<stats, last_update, k, accepted>>
           ELSE /\ stats' = update_cpu_history(r.stats)
                /\ last_update' = now
                /\ k' = k + 1
                /\ accepted' = Append(accepted, r.stats.cpu_usage)
                /\ pc' = "draw"
    /\ UNCHANGED <<interval, now, output, cmd, raw, alt, entered, result, cause, frame,
                   draws, status, tick_start, sched, text, parsed, pushed>>

\* Refresh that carries the disk entries over like the history
RefreshKeepsDisks ==
    /\ pc = "parse"
    /\ LET r == parse_system_stats(output)
       IN  IF r.panic
           THEN /\ pc' = "panicked"
                /\ UNCHANGED <<stats, last_update, k, accepted>>
           ELSE /\ stats' = update_cpu_history(
                               [r.stats EXCEPT !.cpu_history = stats.cpu_history,
                                               !.disk_usage = stats.disk_usage \o @])
                /\ last_update' = now
                /\ k' = k + 1
                /\ accepted' = Append(accepted, r.stats.cpu_usage)
                /\ pc' = "draw"
    /\ UNCHANGED <<interval, now, output, cmd, raw, alt, entered, result, cause, frame,
                   draws, status, tick_start, sched, text, parsed, pushed>>

\* lines 239-249
Refresh ==
    /\ pc = "parse"
    /\ LET r == parse_system_stats(output)
       IN  IF r.panic
           THEN /\ pc' = "panicked"
                /\ UNCHANGED <<stats, last_update, k, accepted>>
           ELSE /\ stats' = update_cpu_history(
                               [r.stats EXCEPT !.cpu_history = stats.cpu_history])
                /\ last_update' = now
                /\ k' = k + 1
                /\ accepted' = Append(accepted, r.stats.cpu_usage)
                /\ pc' = "draw"
    /\ UNCHANGED <<interval, now, output, cmd, raw, alt, entered, result, cause, frame,
                   draws, status, tick_start, sched, text, parsed, pushed>>

\* lines 252-347, the draw succeeding
Draw ==
    /\ pc = "draw"
    /\ frame' = draw_frame(stats)
    /\ stats' = ensure_two_points(stats)
    /\ draws' = draws + 1
    /\ pc' = "poll"
    /\ UNCHANGED <<interval, now, last_update, output, cmd, raw, alt, entered, result,
                   cause, status, tick_start, k, accepted, sched, text, parsed, pushed>>

\* lines 252-347, the draw failing before or after the closure ran
DrawFail ==
    /\ pc = "draw"
    /\ \E ran \in BOOLEAN :
           stats' = IF ran THEN ensure_two_points(stats) ELSE stats
    /\ Propagate("draw")
    /\ UNCHANGED <<interval, now, last_update, output, cmd, raw, alt, entered, frame,
                   draws, status, tick_start, k, accepted, sched, text, parsed, pushed>>

\* PollInput of a loop whose `continue` after a timeout lands on the draw
\* instead of the loop head
PollInputRedraws ==
    /\ pc = "poll"
    /\ \E ev \in {"poll_err", "read_err", "timeout", "other_event", "other_key", "q", "s"} :
           CASE ev = "poll_err" -> Propagate("poll")
             [] ev = "read_err" -> Propagate("read")
             [] ev = "q" -> pc' = "restore_raw" /\ UNCHANGED <<result, cause>>
             [] ev = "s" -> pc' = "shot_disable_raw" /\ UNCHANGED <<result, cause>>
             [] ev = "timeout" -> pc' = "draw" /\ UNCHANGED <<result, cause>>
             [] OTHER -> pc' = "loop" /\ UNCHANGED <<result, cause>>
    /\ UNCHANGED <<interval, now, last_update, stats, output, cmd, raw, alt, entered,
                   frame, draws, status, tick_start, k, accepted, sched, text, parsed,
                   pushed>>

\* lines 349-352 and 405-408
PollInput ==
    /\ pc = "poll"
    /\ \E ev \in {"poll_err", "read_err", "timeout", "other_event", "other_key", "q", "s"} :
           CASE ev = "poll_err" -> Propagate("poll")
             [] ev = "read_err" -> Propagate("read")
             [] ev = "q" -> pc' = "restore_raw" /\ UNCHANGED <<result, cause>>
             [] ev = "s" -> pc' = "shot_disable_raw" /\ UNCHANGED <<result, cause>>
             [] OTHER -> pc' = "loop" /\ UNCHANGED <<result, cause>>
    /\ UNCHANGED <<interval, now, last_update, stats, output, cmd, raw, alt, entered,
                   frame, draws, status, tick_start, k, accepted, sched, text, parsed,
                   pushed>>

\* line 359
ShotDisableRaw ==
    /\ pc = "shot_disable_raw"
    /\ \/ /\ raw' = FALSE
          /\ pc' = "shot_leave_alt"
          /\ UNCHANGED <<result, cause>>
       \/ /\ Propagate("disable_raw_mode")
          /\ UNCHANGED raw
    /\ UNCHANGED <<interval, now, last_update, stats, output, cmd, alt, entered, frame,
                   draws, status, tick_start, k, accepted, sched, text, parsed, pushed>>

\* line 360
ShotLeaveAlt ==
    /\ pc = "shot_leave_alt"
    /\ \/ /\ alt' = FALSE
          /\ pc' = "shot_capture"
          /\ UNCHANGED <<result, cause>>
       \/ /\ Propagate("LeaveAlternateScreen")
          /\ UNCHANGED alt
    /\ UNCHANGED <<interval, now, last_update, stats, output, cmd, raw, entered, frame,
                   draws, status, tick_start, k, accepted, sched, text, parsed, pushed>>

\* lines 363-369: the external screencapture command
ShotCapture ==
    /\ pc = "shot_capture"
    /\ status' \in {"success", "failure", "spawn_err"}
    /\ pc' = "shot_enter_alt"
    /\ UNCHANGED <<interval, now, last_update, stats, output, cmd, raw, alt, entered,
                   result, cause, frame, draws, tick_start, k, accepted, sched, text,
                   parsed, pushed>>

\* ShotEnterAlt without the EnterAlternateScreen command
ShotEnterAltSkipped ==
    /\ pc = "shot_enter_alt"
    /\ pc' = "shot_enable_raw"
    /\ UNCHANGED <<interval, now, last_update, stats, output, cmd, raw, alt, entered,
                   result, cause, frame, draws, status, tick_start, k, accepted, sched,
                   text, parsed, pushed>>

\* line 372
ShotEnterAlt ==
    /\ pc = "shot_enter_alt"
    /\ \/ /\ alt' = TRUE
          /\ pc' = "shot_enable_raw"
          /\ UNCHANGED <<result, cause>>
       \/ /\ Propagate("EnterAlternateScreen")
          /\ UNCHANGED alt
    /\ UNCHANGED <<interval, now, last_update, stats, output, cmd, raw, entered, frame,
                   draws, status, tick_start, k, accepted, sched, text, parsed, pushed>>

\* lines 373-376
ShotEnableRaw ==
    /\ pc = "shot_enable_raw"
    /\ \/ /\ raw' = TRUE
          /\ IF status = "success"
             THEN pc' = "shot_notify" /\ UNCHANGED status
             ELSE pc' = "loop" /\ status' = "none"
          /\ UNCHANGED <<result, cause>>
       \/ /\ Propagate("enable_raw_mode")
          /\ UNCHANGED <<raw, status>>
    /\ UNCHANGED <<interval, now, last_update, stats, output, cmd, alt, entered, frame,
                   draws, tick_start, k, accepted, sched, text, parsed, pushed>>

\* ShotNotify of a loop that restarts the refresh clock after the popup
ShotNotifyResetsClock ==
    /\ pc = "shot_notify"
    /\ \/ /\ now + 2 <= MaxTime
          /\ now' = now + 2
          /\ last_update' = now'
          /\ draws' = draws + 1
          /\ pc' = "loop"
          /\ UNCHANGED <<result, cause>>
       \/ /\ Propagate("draw")
          /\ UNCHANGED <<now, draws, last_update>>
       \/ /\ pc' = "panicked"
          /\ UNCHANGED <<now, draws, result, cause, last_update>>
    /\ status' = "none"
    /\ UNCHANGED <<interval, stats, output, cmd, raw, alt, entered, frame,
                   tick_start, k, accepted, sched, text, parsed, pushed>>

\* lines 378-401: the notification draw and the two seconds it stays.  On a
\* terminal narrower than the popup, size.width - width overflows.
ShotNotify ==
    /\ pc = "shot_notify"
    /\ \/ /\ now + 2 <= MaxTime
          /\ now' = now + 2
          /\ draws' = draws + 1
          /\ pc' = "loop"
          /\ UNCHANGED <<result, cause>>
       \/ /\ Propagate("draw")
          /\ UNCHANGED <<now, draws>>
       \/ /\ pc' = "panicked"
          /\ UNCHANGED <<now, draws, result, cause>>
    /\ status' = "none"
    /\ UNCHANGED <<interval, last_update, stats, output, cmd, raw, alt, entered, frame,
                   tick_start, k, accepted, sched, text, parsed, pushed>>

\* line 411
RestoreRaw ==
    /\ pc = "restore_raw"
    /\ \/ /\ raw' = FALSE
          /\ pc' = "restore_alt"
          /\ UNCHANGED <<result, cause>>
       \/ /\ Propagate("disable_raw_mode")
          /\ UNCHANGED raw
    /\ UNCHANGED <<interval, now, last_update, stats, output, cmd, alt, entered, frame,
                   draws, status, tick_start, k, accepted, sched, text, parsed, pushed>>

\* lines 412-413
RestoreAlt ==
    /\ pc = "restore_alt"
    /\ \/ /\ alt' = FALSE
          /\ pc' = "returned"
          /\ result' = "ok"
          /\ cause' = "quit"
       \/ /\ Propagate("LeaveAlternateScreen")
          /\ UNCHANGED alt
    /\ UNCHANGED <<interval, now, last_update, stats, output, cmd, raw, entered, frame,
                   draws, status, tick_start, k, accepted, sched, text, parsed, pushed>>

Next ==
    \/ Tick
    \/ EnableRawMode
    \/ EnterAlternateScreen
    \/ TerminalNew
    \/ DueCheck
    \/ ExecOk
    \/ ExecFail
    \/ Refresh
    \/ Draw
    \/ DrawFail
    \/ PollInput
    \/ ShotDisableRaw
    \/ ShotLeaveAlt
    \/ ShotCapture
    \/ ShotEnterAlt
    \/ ShotEnableRaw
    \/ ShotNotify
    \/ RestoreRaw
    \/ RestoreAlt

Spec == Init /\ [][Next]_vars

----------------------------------------------------------------------------
(* parse_system_stats on its own: every text of one or two lines, one line *)
(* any token sequence over the CPU, the memory or the disk alphabet, the   *)
(* other a sample line; then one draw of the parsed snapshot.              *)

CpuAlphabet == {"%Cpu(s):", "us,", "sy,", "3.2", "1.1"}

MemAlphabet == {"Mem:", "Swap:", "0", "400", "abc"}

SampleLines ==
    { <<"%Cpu(s):", "1.1", "us,", "3.2", "sy,">>,
      <<"Mem:", "1000", "400", "600">>,
      <<"Mem:", "0", "400">>,
      <<"Swap:", "200", "50", "0">>,
      <<"/dev/sda1", "1000", "400", "600", "40%", "/">>,
      <<"/dev/sdb1", "abc", "50">>,
      <<"up", "load", "average:", "0.10,", "0.20,", "0.30">>,
      <<"load", "average:", "0.10,", "abc,">> }

DiskAlphabet == {"/", "400", "abc"}

FreeLines ==
    SeqsUpTo(CpuAlphabet, MaxCpuTokens)
        \cup SeqsUpTo(MemAlphabet, MaxMemTokens)
        \cup SeqsUpTo(DiskAlphabet, MaxDiskTokens)

ParserInputs ==
    {<<l>> : l \in FreeLines}
        \cup {<<l, e>> : l \in FreeLines, e \in SampleLines}
        \cup {<<e, l>> : e \in SampleLines, l \in FreeLines}

InitParse ==
    /\ pc = "parse_input"
    /\ text \in ParserInputs
    /\ interval = 0
    /\ sched = [phase |-> 0, stride |-> 0]
    /\ now = 0
    /\ last_update = 0
    /\ stats = SystemStats_default
    /\ output = <<>>
    /\ cmd = 0
    /\ raw = TRUE
    /\ alt = TRUE
    /\ entered = TRUE
    /\ result = "none"
    /\ cause = "none"
    /\ frame = NoFrame
    /\ draws = 0
    /\ status = "none"
    /\ tick_start = [stats |-> SystemStats_default, last_update |-> 0]
    /\ k = 0
    /\ accepted = <<>>
    /\ parsed = [panic |-> FALSE, stats |-> SystemStats_default]
    /\ pushed = <<>>

\* stats = parse_system_stats(&text), as at line 243
ParseInput ==
    /\ pc = "parse_input"
    /\ parsed' = parse_system_stats(text)
    /\ IF parsed'.panic
       THEN pc' = "panicked" /\ UNCHANGED stats
       ELSE pc' = "draw" /\ stats' = parsed'.stats
    /\ UNCHANGED <<interval, now, last_update, output, cmd, raw, alt, entered, result,
                   cause, frame, draws, status, tick_start, k, accepted, sched, text,
                   pushed>>

NextParse == ParseInput \/ Draw

SpecParse == InitParse /\ [][NextParse]_vars

----------------------------------------------------------------------------
(* update_cpu_history on its own: samples pushed one by one onto an empty  *)
(* history.  Consecutive samples differ, so positions can be told apart.   *)

FirstSamples == {0, 320, 9570}

NextSample(v) == (v + 110) % 10000

InitPush ==
    /\ pc = "push"
    /\ stats \in {[SystemStats_default EXCEPT !.cpu_usage = v] : v \in FirstSamples}
    /\ pushed = <<>>
    /\ text = <<>>
    /\ interval = 0
    /\ sched = [phase |-> 0, stride |-> 0]
    /\ now = 0
    /\ last_update = 0
    /\ output = <<>>
    /\ cmd = 0
    /\ raw = TRUE
    /\ alt = TRUE
    /\ entered = TRUE
    /\ result = "none"
    /\ cause = "none"
    /\ frame = NoFrame
    /\ draws = 0
    /\ status = "none"
    /\ tick_start = [stats |-> SystemStats_default, last_update |-> 0]
    /\ k = 0
    /\ accepted = <<>>
    /\ parsed = [panic |-> FALSE, stats |-> SystemStats_default]

\* stats.update_cpu_history() with stats.cpu_usage the next sample
PushSample ==
    /\ pc = "push"
    /\ Len(pushed) < MaxPush
    /\ pushed' = Append(pushed, stats.cpu_usage)
    /\ stats' = [update_cpu_history(stats) EXCEPT !.cpu_usage = NextSample(stats.cpu_usage)]
    /\ UNCHANGED <<pc, interval, now, last_update, output, cmd, raw, alt, entered,
                   result, cause, frame, draws, status, tick_start, k, accepted, sched,
                   text, parsed>>

NextPush == PushSample

SpecPush == InitPush /\ [][NextPush]_vars

----------------------------------------------------------------------------
(* Properties *)

ExecutorCalls == {"channel_session", "exec", "read_to_string", "wait_close"}

TerminalCalls == {"enable_raw_mode", "disable_raw_mode", "EnterAlternateScreen",
                  "LeaveAlternateScreen", "Terminal::new", "draw", "poll", "read"}

\* C1: when one of the four commands of a due refresh fails, at whatever
\* position of the batch, stats (history included) and last_update have the
\* values they had at the top of that iteration.
C1_FailedBatchKeepsState ==
    (pc = "returned" /\ cause \in ExecutorCalls)
        => /\ stats = tick_start.stats
           /\ last_update = tick_start.last_update

\* a batch failed at its third command, after an earlier refresh succeeded
C1_Witness ==
    /\ pc = "returned"
    /\ cause = "wait_close"
    /\ cmd = 3
    /\ k >= 1
    /\ stats.cpu_history # <<>>

\* C2: a failure of the remote executor never ends the dashboard; the loop is
\* left only by the quit key or by a terminal/display error.
C2_OnlyQuitOrTerminalErrorEnds ==
    pc = "returned" => cause \in {"quit"} \cup TerminalCalls

\* C3: whenever monitor_system returns after it switched raw mode and the
\* alternate screen on, raw mode is disabled and the alternate screen is left.
C3_TerminalRestoredOnReturn ==
    (pc = "returned" /\ entered) => (~raw /\ ~alt)

\* C4: in every state of the dashboard loop the CPU history holds at most
\* MAX_HISTORY samples.
C4_HistoryBounded == Len(stats.cpu_history) <= MAX_HISTORY

\* the loop runs with a full history after more than MAX_HISTORY refreshes
C4_Witness ==
    /\ pc = "poll"
    /\ k > MAX_HISTORY
    /\ Len(stats.cpu_history) = MAX_HISTORY

\* C5: after the samples of a sequence were pushed one by one onto an empty
\* history, the history is the last min(n, MAX_HISTORY) samples pushed, oldest
\* first.
C5_HistoryIsLastSamples ==
    pc = "push"
        => stats.cpu_history = LastN(pushed, Min(Len(pushed), MAX_HISTORY))

\* pushes went on after the history was full
C5_Witness ==
    /\ pc = "push"
    /\ Len(pushed) > MAX_HISTORY + 1
    /\ stats.cpu_history[1] # pushed[1]

\* C6: the history holds exactly the cpu_usage of the last min(k, MAX_HISTORY)
\* successfully parsed snapshots, in order, k the number of successful
\* refreshes.
C6_OneSamplePerRefresh ==
    pc \in Live \cup {"returned"}
        => /\ Len(stats.cpu_history) = Min(k, MAX_HISTORY)
           /\ stats.cpu_history = LastN(accepted, Min(k, MAX_HISTORY))

\* C7: drawing a frame changes neither stats (history included) nor
\* last_update.
C7_RenderLeavesStateUnchanged ==
    [][pc = "draw" => (stats' = stats /\ last_update' = last_update)]_vars

\* C8: every frame's CPU series has at least two points, and when the history
\* found by the draw held fewer than two samples all points equal the current
\* CPU value.
C8_ChartHasTwoPoints ==
    draws > 0
        => /\ Len(frame.cpu_points) >= 2
           /\ Len(frame.seen_history) < 2
                 => \A i \in 1..Len(frame.cpu_points) :
                        frame.cpu_points[i].y = frame.title_cpu

\* C9: parse_system_stats returns a snapshot for every text, and a field with
\* no line to extract it from holds its zero default.
C9_ParserTotal ==
    pc # "parse_input"
        => /\ ~parsed.panic
           /\ (\A i \in 1..Len(text) : ~ContainsCpuMarker(text[i]))
                 => parsed.stats.cpu_usage = 0
           /\ (\A i \in 1..Len(text) : ~StartsWithMem(text[i]))
                 => parsed.stats.memory_total = 0 /\ parsed.stats.memory_used = 0
           /\ (\A i \in 1..Len(text) : ~StartsWithSwap(text[i]))
                 => parsed.stats.swap_total = 0 /\ parsed.stats.swap_used = 0
           /\ (\A i \in 1..Len(text) : ~ContainsLoadMarker(text[i]))
                 => parsed.stats.load_average = <<0, 0, 0>> /\ parsed.stats.uptime = <<>>
           /\ (\A i \in 1..Len(text) : ~StartsWithSlash(text[i]))
                 => parsed.stats.disk_usage = <<>>

\* C10: a snapshot with memory (swap) total 0 is drawn with memory (swap)
\* percentage 0 whatever its used value, and no value derived from an infinity
\* reaches the gauges.
C10_ZeroTotalRendersZero ==
    draws > 0
        => /\ frame.memory_total = 0 => frame.mem_percent = U64Value(0)
           /\ frame.swap_total = 0 => frame.swap_percent = U64Value(0)
           /\ ~frame.mem_percent.u64_max
           /\ ~frame.swap_percent.u64_max

\* C11: cpu_usage comes from the first %Cpu(s) line alone: the number before
\* its `us,` token plus the number before its `sy,` token, the user value alone
\* when the `sy,` value is absent or no number, 0 when no marker is found; the
\* parser returns this for every text.
C11_CpuFromFirstLine ==
    pc # "parse_input"
        => LET hits == {i \in 1..Len(text) : ContainsCpuMarker(text[i])}
               line == text[MinOf(hits)]
               us == {i \in 2..Len(line) :
                          line[i] = "us," /\ ParseF64(line[i - 1]) # NoVal}
               sy == {j \in 1..Len(line) : line[j] = "sy,"}
               user == ParseF64(line[MinOf(us) - 1])
               sys == IF sy = {} \/ MinOf(sy) = 1 THEN 0
                      ELSE IF ParseF64(line[MinOf(sy) - 1]) = NoVal THEN 0
                           ELSE ParseF64(line[MinOf(sy) - 1])
           IN  /\ ~parsed.panic
               /\ parsed.stats.cpu_usage =
                      IF hits = {} THEN 0
                      ELSE IF us = {} THEN 0
                           ELSE user + sys

\* C12: whenever the parser returns, disk_usage has one entry for each line
\* that starts with `/` and has at least 6 tokens, in the order of the lines and
\* without merging equal mount points; the entry is (token 5, token 1 or 0,
\* token 2 or 0), tokens counted from 0.
C12_DiskEntriesInLineOrder ==
    (pc # "parse_input" /\ ~parsed.panic)
        => LET idx == {i \in 1..Len(text) :
                           StartsWithSlash(text[i]) /\ Len(text[i]) >= 6}
               d == parsed.stats.disk_usage
               val(t) == IF ParseU64(t) = NoVal THEN 0 ELSE ParseU64(t)
           IN  /\ Len(d) = Cardinality(idx)
               /\ \A i \in idx :
                      d[Cardinality({j \in idx : j <= i})]
                          = <<text[i][6], val(text[i][2]), val(text[i][3])>>

\* two disk lines with the same mount point and different sizes were parsed
C12_Witness ==
    /\ pc = "poll"
    /\ ~parsed.panic
    /\ Len(parsed.stats.disk_usage) = 2
    /\ parsed.stats.disk_usage[1][1] = parsed.stats.disk_usage[2][1]
    /\ parsed.stats.disk_usage[1] # parsed.stats.disk_usage[2]

\* the positions of the 's' arm (lines 353-404)
ShotPcs == {"shot_disable_raw", "shot_leave_alt", "shot_capture", "shot_enter_alt",
            "shot_enable_raw", "shot_notify"}

\* C13: no step of the snapshot hand-off changes stats (history included) or
\* last_update, whatever the capture's outcome; the hand-off ends at the loop
\* head (or ends monitor_system), and a loop head at which the refresh is due
\* starts the command batch.
C13_HandOffKeepsStateAndRefresh ==
    [][/\ pc \in ShotPcs
            => /\ stats' = stats
               /\ last_update' = last_update
               /\ pc' \in ShotPcs \cup {"loop", "returned", "panicked"}
       /\ (pc = "loop" /\ pc' # "loop" /\ now - last_update >= interval)
            => (pc' = "exec" /\ cmd' = 1)]_vars

\* a hand-off with a notification ended and the refresh became due meanwhile
C13_Witness ==
    /\ pc = "loop"
    /\ draws = 2
    /\ k >= 1
    /\ interval >= 1
    /\ now - last_update >= interval

\* C14: once the quit key is read the loop only releases the terminal and
\* returns: no refresh, draw or input wait follows, and monitor_system returns
\* Ok with raw mode disabled and the alternate screen left; any other event
\* than quit and snapshot-request goes back to the loop head with stats and
\* last_update unchanged.
C14_QuitExitsWithSuccess ==
    [][/\ pc \in {"restore_raw", "restore_alt"}
            => /\ pc' \in {"restore_raw", "restore_alt", "returned"}
               /\ pc' = "returned" => (result' = "ok" /\ ~raw' /\ ~alt')
       /\ (pc = "poll" /\ pc' = "loop")
            => (stats' = stats /\ last_update' = last_update)]_vars

\* the order of the steps of one iteration: batch, draw, input wait
C15_Order ==
    (pc \in {"loop", "exec", "parse", "draw", "poll"} /\ pc' # pc)
        => <<pc, pc'>> \in {<<"loop", "exec">>, <<"loop", "draw">>,
                            <<"exec", "parse">>, <<"exec", "returned">>,
                            <<"parse", "draw">>, <<"parse", "panicked">>,
                            <<"draw", "poll">>, <<"draw", "returned">>,
                            <<"poll", "loop">>, <<"poll", "returned">>,
                            <<"poll", "restore_raw">>, <<"poll", "shot_disable_raw">>}

\* C15 as stated: in every iteration the command batch runs before the draw,
\* the input wait comes after the draw, and no iteration draws twice.
C15_AtMostOneDraw ==
    /\ draws <= 1
    /\ pc \in {"exec", "parse", "draw"} => draws = 0
    /\ pc = "poll" => draws = 1

\* C15 amended: an iteration makes at most one refresh attempt, then one
\* dashboard draw, then at most one input wait, in this order; the only second
\* draw of an iteration is the notification that ends a snapshot hand-off.
C15_SecondDrawOnlyNotification ==
    /\ [](/\ draws <= 2
          /\ pc \in {"exec", "parse", "draw"} => draws = 0
          /\ pc \in {"poll"} \cup ShotPcs => draws = 1
          /\ draws = 2 => pc = "loop")
    /\ [][C15_Order]_vars

\* an iteration ended after the dashboard draw and the notification draw
C15_Witness ==
    /\ pc = "loop"
    /\ draws = 2
    /\ status = "none"

\* the text of a batch whose four commands all ran in host condition c
BatchOut(c) == TopOut(c) \o FreeOut(c) \o DfOut(c) \o UptimeOut(c)

\* the fields of a SystemStats other than the history
Metrics(s) == [s EXCEPT !.cpu_history = <<>>]

\* C16: whenever a frame is about to be drawn, the snapshot is the default one
\* (no refresh yet) or the parse of the whole four-command output of a completed
\* batch, and after a refresh in this iteration the history is the history of
\* the iteration's start with the new snapshot's cpu_usage pushed.
C16_DrawSeesWholeSnapshot ==
    pc = "draw"
        => /\ k = 0 => Metrics(stats) = Metrics(SystemStats_default)
           /\ k >= 1
                => /\ \E c \in Conditions : output = BatchOut(c)
                   /\ Metrics(stats) = Metrics(parse_system_stats(output).stats)
           /\ \/ stats = tick_start.stats
              \/ LET prior == tick_start.stats.cpu_history
                     kept == IF Len(prior) >= MAX_HISTORY THEN Tail(prior) ELSE prior
                 IN  /\ k >= 1
                     /\ stats.cpu_history = Append(kept, stats.cpu_usage)

\* a draw right after a refresh that pushed onto a non-empty history
C16_Witness ==
    /\ pc = "draw"
    /\ k >= 2
    /\ stats # tick_start.stats
    /\ Len(stats.cpu_history) = Len(tick_start.stats.cpu_history) + 1

\* C17: the loop head starts a batch exactly when now - last_update >= interval;
\* last_update changes only at the end of a successful refresh (and at its
\* initialisation), to the current instant; so two successive values of
\* last_update are at least interval apart.
C17_RefreshExactlyWhenDue ==
    [][/\ (pc = "loop" /\ pc' # "loop")
            => (pc' = "exec" <=> now - last_update >= interval)
       /\ last_update' # last_update
            => /\ last_update' = now
               /\ \/ pc = "terminal_new" /\ pc' = "loop"
                  \/ /\ pc = "parse" /\ pc' = "draw"
                     /\ k' = k + 1
                     /\ last_update' - last_update >= interval]_vars

\* a second refresh completed under a positive interval
C17_Witness ==
    /\ pc = "draw"
    /\ k >= 2
    /\ interval >= 1
    /\ last_update = now
    /\ tick_start.last_update # last_update

\* C18: after k >= 1 successful refreshes every metric field is the one parsed
\* from the output of the latest batch alone; nothing of an earlier batch is
\* left in disk_usage, uptime, load_average, memory or swap.
C18_MetricsFromLatestBatch ==
    (k >= 1 /\ pc \in Live \cup {"returned", "panicked"})
        => LET latest == parse_system_stats(BatchOut(CondAt(sched, k - 1))).stats
           IN  /\ stats.cpu_usage = latest.cpu_usage
               /\ stats.disk_usage = latest.disk_usage
               /\ stats.uptime = latest.uptime
               /\ stats.load_average = latest.load_average
               /\ stats.memory_total = latest.memory_total
               /\ stats.memory_used = latest.memory_used
               /\ stats.swap_total = latest.swap_total
               /\ stats.swap_used = latest.swap_used

\* the latest batch has fewer disk lines, no swap line and no load values,
\* the batch before it had them
C18_Witness ==
    /\ k >= 2
    /\ pc = "poll"
    /\ sched.stride = 1
    /\ CondAt(sched, k - 1) = 2
    /\ Len(stats.disk_usage) = 1
    /\ stats.load_average = <<0, 0, 0>>
    /\ stats.swap_total = 0

\* C19: last_update starts as the instant monitor_system set the terminal up,
\* so before the first successful refresh a batch runs only when interval has
\* elapsed since then, and every frame drawn before the first successful
\* refresh shows the default snapshot.
C19_NoRefreshBeforeInterval ==
    /\ []((k = 0 /\ pc \in {"exec", "parse"}) => now - last_update >= interval)
    /\ []((k = 0 /\ draws > 0 /\ pc \in Live)
              => /\ frame.title_cpu = 0
                 /\ frame.mem_percent = U64Value(0)
                 /\ frame.swap_percent = U64Value(0)
                 /\ frame.uptime = <<>>
                 /\ frame.disk_items = <<>>
                 /\ \A i \in 1..Len(frame.cpu_points) : frame.cpu_points[i].y = 0)
    /\ [][(pc = "terminal_new" /\ pc' = "loop") => last_update' = now]_vars

\* a frame was drawn under a positive interval before any refresh, some time
\* after the start
C19_Witness ==
    /\ k = 0
    /\ pc = "poll"
    /\ draws = 1
    /\ interval >= 1
    /\ last_update >= 1
    /\ now > last_update

\* C20: every draw (dashboard and notification) happens in raw mode on the
\* alternate screen, the capture runs with raw mode off and the alternate
\* screen left, and the loop head is always reached in raw mode on the alternate
\* screen.
C20_TerminalModeBalanced ==
    /\ pc \in {"draw", "shot_notify"} => (raw /\ alt)
    /\ pc = "shot_capture" => (~raw /\ ~alt)
    /\ pc \in {"loop", "exec", "parse", "poll"} => (raw /\ alt)

\* a successful capture is about to be notified, back in raw mode
C20_Witness ==
    /\ pc = "shot_notify"
    /\ status = "success"
    /\ raw
    /\ alt

====
